---- MODULE Spec2Model ----
(***************************************************************************)
(* State-machine model of src/js/performance-fix.js: a self-invoking       *)
(* browser script that wires DOM-mutation helpers to the scroll, resize,   *)
(* visibilitychange and DOMContentLoaded events and to setTimeout /        *)
(* requestAnimationFrame callbacks.                                        *)
(*                                                                         *)
(* Every action is one task of the browser's single-threaded event loop:   *)
(* the synchronous run of the script, one event dispatch, one timer        *)
(* callback, one animation frame or one observer callback.  Time is kept   *)
(* as the remaining delay of every pending timer.  Time never passes a     *)
(* timer that is due, and timers that are due run in creation order.       *)
(* The document is assumed to have a body when the script runs.  The       *)
(* scroll position (lastScrollY, window.scrollTo) is left out: nothing in  *)
(* the script reads it.                                                    *)
(***************************************************************************)
EXTENDS Naturals, Sequences, FiniteSets

VARIABLES
    pc,            \* "boot" before the script has run, "run" after
    readyState,    \* document.readyState
    dclFired,      \* DOMContentLoaded has been dispatched
    dclListeners,  \* number of times init is registered for DOMContentLoaded
    hidden,        \* document.hidden
    hasIO,         \* 'IntersectionObserver' in window
    doc,           \* the elements of the document (tag, classes, attributes)
    style,         \* inline style and attributes of every element
    bodyStyle,     \* document.body.style
    htmlStyle,     \* document.documentElement.style
    rafId,         \* line 25
    rafQueue,      \* number of pending requestAnimationFrame callbacks
    ranInFrame,    \* scrollHandler runs in the latest animation frame
    scrollListeners, \* scroll listeners registered on window
    headStyles,    \* style elements appended to document.head
    timers,        \* pending setTimeout callbacks, in creation order
    nextId,        \* next timer id setTimeout returns
    resizeTimer,   \* line 56
    observers,     \* IntersectionObserver objects created
    observed,      \* elements handed to observer.observe
    lastReport,    \* latest isIntersecting the observer reported per element
    calls,         \* how often each function has run
    env            \* what the environment has done so far (events, quiet time)

vars == << pc, readyState, dclFired, dclListeners, hidden, hasIO, doc, style,
           bodyStyle, htmlStyle, rafId, rafQueue, ranInFrame, scrollListeners,
           headStyles, timers, nextId, resizeTimer, observers, observed,
           lastReport, calls, env >>

-----------------------------------------------------------------------------
(* Bounds of the model *)

MaxEvents == 3       \* events the environment dispatches in one run, of all kinds together

-----------------------------------------------------------------------------
(* Program constants *)

NULL == 0            \* rafId = null, resizeTimer = undefined
SetupDelay == 100
ResetDelay == 3000
ResizeDelay == 250
VisibilityDelay == 100
UnlockDelays == << 500, 1000, 2000 >>

-----------------------------------------------------------------------------
(* The document *)

El(tag, cls, dataV, tr) ==
    [tag |-> tag, class |-> cls, dataV |-> dataV, transform |-> tr]

\* Documents the script is run against.
Docs ==
    { << El("div", {}, FALSE, "") >>,
      << El("div", {"project"}, FALSE, "") >>,
      << El("div", {}, TRUE, "") >>,
      << El("div", {"showreel"}, FALSE, "scale(2)") >>,
      << El("img", {}, FALSE, ""), El("section", {"page"}, FALSE, "") >> }

Elems == 1 .. Len(doc)

InitialStyle(d) ==
    [transform |-> d.transform, willChange |-> "", backfaceVisibility |-> "",
     contain |-> "", imageRendering |-> "", loading |-> ""]

\* The serialised style attribute contains the substring "transform".
StyleHasTransform(s) ==
    \/ s.transform # ""
    \/ s.willChange \in {"transform", "transform, opacity"}

\* (variant: the selector matches every element)
MatchesTransformAny(d, s) == TRUE

\* '[style*="transform"]'
MatchesTransform(d, s) == StyleHasTransform(s)

\* '.project, .page, [data-v-4aa72278]'
MatchesObserved(d, s) ==
    \/ d.class \cap {"project", "page"} # {}
    \/ d.dataV

\* '.page, .background, .showreel, .project'
MatchesHeavy(d, s) == d.class \cap {"page", "background", "showreel", "project"} # {}

\* 'img'
MatchesImg(d, s) == d.tag = "img"

\* 'section, .page, footer'
MatchesSection(d, s) == d.tag \in {"section", "footer"} \/ "page" \in d.class

\* whether an element with description d and inline style s matches a selector
Matches(selector, d, s) ==
    CASE selector = "[style*=transform]" -> MatchesTransform(d, s)
      [] selector = ".project, .page, [data-v-4aa72278]" -> MatchesObserved(d, s)
      [] selector = ".page, .background, .showreel, .project" -> MatchesHeavy(d, s)
      [] selector = "img" -> MatchesImg(d, s)
      [] selector = "section, .page, footer" -> MatchesSection(d, s)

\* querySelectorAll: the matching elements in document order.
QuerySelectorAll(selector, st) ==
    SelectSeq([i \in 1 .. Len(doc) |-> i], LAMBDA e : Matches(selector, doc[e], st[e]))

Range(seq) == { seq[i] : i \in 1 .. Len(seq) }

-----------------------------------------------------------------------------
(* The helpers of the script, as functions of the state they change *)

\* (variant: the height restriction is left in place)
EnableScrollingOverflowOnly(s) == [s EXCEPT !.overflow = "auto"]

\* enableScrollingImmediately on documentElement, and its common part on body
EnableScrolling(s) == [s EXCEPT !.overflow = "auto", !.height = "auto"]

\* enableScrollingImmediately on body
EnableScrollingBody(s) == [EnableScrolling(s) EXCEPT !.webkitOverflowScrolling = "touch"]

\* (variant: every scroll event requests a frame)
ScrollGuardAlways(id) == TRUE

\* the scroll listener's guard
ScrollGuard(id) == id = NULL

\* optimizeTransforms: the styles after the call
OptimizeTransformsStyle(st) ==
    LET sel == Range(QuerySelectorAll("[style*=transform]", st))
    IN  [e \in DOMAIN st |->
            IF e \in sel THEN [st[e] EXCEPT !.willChange = "transform"] ELSE st[e]]

\* optimizeTransforms: the timers after the call
OptimizeTransformsTimers(tm, st, id) ==
    LET sel == QuerySelectorAll("[style*=transform]", st)
    IN  tm \o [i \in 1 .. Len(sel) |->
                 [id |-> id + i - 1, kind |-> "reset", el |-> sel[i], rem |-> ResetDelay]]

OptimizeTransformsIds(st) == Len(QuerySelectorAll("[style*=transform]", st))

\* (variant: the pending timer is not cancelled)
ClearTimeoutNothing(tm, id) == tm

\* clearTimeout
ClearTimeout(tm, id) == SelectSeq(tm, LAMBDA t : t.id # id)

\* setTimeout
SetTimeout(tm, id, kind, delay) ==
    Append(tm, [id |-> id, kind |-> kind, el |-> 0, rem |-> delay])

\* (variant: the feature test is skipped)
ObserverAvailableAlways(io) == TRUE

\* 'IntersectionObserver' in window
ObserverAvailable(io) == io

\* (variant: the two branches are swapped)
ObserverHintSwapped(isIntersecting) == IF isIntersecting THEN "auto" ELSE "transform, opacity"

\* the observer callback's choice of will-change
ObserverHint(isIntersecting) == IF isIntersecting THEN "transform, opacity" ELSE "auto"

\* enableHardwareAcceleration
EnableHardwareAcceleration(st) ==
    LET sel == Range(QuerySelectorAll(".page, .background, .showreel, .project", st))
    IN  [e \in DOMAIN st |->
            IF e \in sel
            THEN [st[e] EXCEPT
                    !.transform = IF @ # "" THEN @ ELSE "translateZ(0)",
                    !.backfaceVisibility = "hidden"]
            ELSE st[e]]

\* optimizeImages
OptimizeImages(st) ==
    LET sel == Range(QuerySelectorAll("img", st))
    IN  [e \in DOMAIN st |->
            IF e \in sel
            THEN [st[e] EXCEPT !.imageRendering = "auto", !.loading = "lazy"]
            ELSE st[e]]

\* reducePaintOperations
ReducePaintOperations(st) ==
    LET sel == Range(QuerySelectorAll("section, .page, footer", st))
    IN  [e \in DOMAIN st |->
            IF e \in sel THEN [st[e] EXCEPT !.contain = "layout style paint"] ELSE st[e]]

\* (variant: init never waits for DOMContentLoaded)
InitReturnsEarlyNever(rs) == FALSE

\* init returns after registering itself for DOMContentLoaded
InitReturnsEarly(rs) == rs = "loading"

\* one more run of function f
Bump(c, f) == [c EXCEPT ![f] = @ + 1]

\* init: the timer of lines 164-167, unless init returned early
InitTimers(tm, id, early) ==
    IF early THEN tm ELSE SetTimeout(tm, id, "setup", SetupDelay)

InitIds(early) == IF early THEN 0 ELSE 1

\* init: lines 152-161
InitEffects(early) ==
    IF early
    THEN /\ dclListeners' = 1
         /\ UNCHANGED << scrollListeners, style, headStyles >>
    ELSE /\ scrollListeners' = scrollListeners + 1
         /\ style' = ReducePaintOperations(OptimizeImages(EnableHardwareAcceleration(style)))
         /\ headStyles' = headStyles + 1
         /\ UNCHANGED dclListeners

InitCalls(c, early) ==
    IF early THEN Bump(c, "enable")
    ELSE Bump(Bump(Bump(Bump(Bump(Bump(c, "enable"), "body"), "hw"), "img"), "paint"), "smooth")

-----------------------------------------------------------------------------
(* Initial state: the page before the script runs *)

NoCalls ==
    [enable |-> 0, body |-> 0, hw |-> 0, img |-> 0, paint |-> 0, smooth |-> 0,
     setup |-> 0, otInit |-> 0, otResize |-> 0, otVisibility |-> 0]

Init ==
    /\ pc = "boot"
    /\ readyState = "loading"
    /\ dclFired = FALSE
    /\ dclListeners = 0
    /\ hidden = FALSE
    /\ hasIO \in BOOLEAN
    /\ doc \in Docs
    /\ style = [e \in 1 .. Len(doc) |-> InitialStyle(doc[e])]
    /\ bodyStyle = [overflow |-> "", height |-> "", webkitOverflowScrolling |-> ""]
    /\ htmlStyle = [overflow |-> "", height |-> ""]
    /\ rafId = NULL
    /\ rafQueue = 0
    /\ ranInFrame = 0
    /\ scrollListeners = 0
    /\ headStyles = 0
    /\ timers = << >>
    /\ nextId = 1
    /\ resizeTimer = NULL
    /\ observers = 0
    /\ observed = {}
    /\ lastReport = [e \in 1 .. Len(doc) |-> "none"]
    /\ calls = NoCalls
    /\ env = [events |-> 0, scrolls |-> 0, resizes |-> 0, quiet |-> 0, served |-> TRUE,
              early |-> FALSE, late |-> {}]

-----------------------------------------------------------------------------
(* The page's own life cycle *)

\* the parser reaches the end of the document
ParseEnd ==
    /\ readyState = "loading"
    /\ readyState' = "interactive"
    /\ UNCHANGED << pc, dclFired, dclListeners, hidden, hasIO, doc, style, bodyStyle,
                    htmlStyle, rafId, rafQueue, ranInFrame, scrollListeners, headStyles,
                    timers, nextId, resizeTimer, observers, observed, lastReport, calls,
                    env >>

\* an invocation of enableScrollingImmediately is still to come
UnlockPending ==
    \/ pc = "boot"
    \/ dclListeners > 0 /\ ~dclFired
    \/ \E i \in 1 .. Len(timers) : timers[i].kind = "unlock"

\* the page locks scrolling through an inline style of body or documentElement
PageLock ==
    /\ pc = "run"
    /\ env.events < MaxEvents
    /\ \E target \in {"body", "html"}, prop \in {"overflow", "height"} :
          LET lock(s) == IF prop = "overflow" THEN [s EXCEPT !.overflow = "hidden"]
                         ELSE [s EXCEPT !.height = "100vh"]
          IN  /\ IF target = "body"
                 THEN bodyStyle' = lock(bodyStyle) /\ UNCHANGED htmlStyle
                 ELSE htmlStyle' = lock(htmlStyle) /\ UNCHANGED bodyStyle
              /\ env' = [env EXCEPT
                           !.events = @ + 1,
                           !.early = @ \/ UnlockPending,
                           !.late = IF UnlockPending THEN @ \ {<< target, prop >>}
                                    ELSE @ \cup {<< target, prop >>}]
    /\ UNCHANGED << pc, readyState, dclFired, dclListeners, hidden, hasIO, doc, style,
                    rafId, rafQueue, ranInFrame, scrollListeners, headStyles, timers,
                    nextId, resizeTimer, observers, observed, lastReport, calls >>

-----------------------------------------------------------------------------
(* The script *)

\* lines 182-184
UnlockTimers(tm, id) ==
    tm \o [i \in 1 .. Len(UnlockDelays) |->
             [id |-> id + i - 1, kind |-> "unlock", el |-> 0, rem |-> UnlockDelays[i]]]

\* the synchronous run of the whole script (lines 4-186)
Script ==
    /\ pc = "boot"
    /\ pc' = "run"
    /\ LET early == InitReturnsEarly(readyState)
       IN  /\ bodyStyle' = EnableScrollingBody(EnableScrollingBody(bodyStyle))
           /\ htmlStyle' = EnableScrolling(EnableScrolling(htmlStyle))
           /\ InitEffects(early)
           /\ timers' = UnlockTimers(InitTimers(timers, nextId, early),
                                     nextId + InitIds(early))
           /\ nextId' = nextId + InitIds(early) + Len(UnlockDelays)
           /\ calls' = InitCalls(Bump(calls, "enable"), early)
    /\ rafId' = NULL
    /\ UNCHANGED << readyState, dclFired, hidden, hasIO, doc, rafQueue, ranInFrame,
                    resizeTimer, observers, observed, lastReport, env >>

\* DOMContentLoaded is dispatched; init runs again if it registered itself
DOMContentLoaded ==
    /\ readyState = "interactive"
    /\ ~dclFired
    /\ dclFired' = TRUE
    /\ IF dclListeners > 0
       THEN LET early == InitReturnsEarly(readyState)
            IN  /\ bodyStyle' = EnableScrollingBody(bodyStyle)
                /\ htmlStyle' = EnableScrolling(htmlStyle)
                /\ InitEffects(early)
                /\ timers' = InitTimers(timers, nextId, early)
                /\ nextId' = nextId + InitIds(early)
                /\ calls' = InitCalls(calls, early)
       ELSE UNCHANGED << bodyStyle, htmlStyle, dclListeners, scrollListeners, style,
                         headStyles, timers, nextId, calls >>
    /\ UNCHANGED << pc, readyState, hidden, hasIO, doc, rafId, rafQueue, ranInFrame,
                    resizeTimer, observers, observed, lastReport, env >>

\* the scroll listeners run in turn (lines 35-39): the result is << rafId, rafQueue >>
RECURSIVE ScrollDispatch(_, _, _)
ScrollDispatch(n, id, q) ==
    IF n = 0 THEN << id, q >>
    ELSE IF ScrollGuard(id) THEN ScrollDispatch(n - 1, q + 1, q + 1)
         ELSE ScrollDispatch(n - 1, id, q)

\* a scroll event on window
Scroll ==
    /\ pc = "run"
    /\ env.events < MaxEvents
    /\ env' = [env EXCEPT !.events = @ + 1, !.scrolls = @ + 1]
    /\ LET r == ScrollDispatch(scrollListeners, rafId, rafQueue)
       IN  rafId' = r[1] /\ rafQueue' = r[2]
    /\ UNCHANGED << pc, readyState, dclFired, dclListeners, hidden, hasIO, doc, style,
                    bodyStyle, htmlStyle, ranInFrame, scrollListeners, headStyles,
                    timers, nextId, resizeTimer, observers, observed, lastReport, calls >>

\* an animation frame: every pending callback (scrollHandler, lines 30-33) runs
Frame ==
    /\ pc = "run"
    /\ env.events < MaxEvents
    /\ env' = [env EXCEPT !.events = @ + 1, !.scrolls = 0]
    /\ ranInFrame' = rafQueue
    /\ rafQueue' = 0
    /\ rafId' = IF rafQueue > 0 THEN NULL ELSE rafId
    /\ UNCHANGED << pc, readyState, dclFired, dclListeners, hidden, hasIO, doc, style,
                    bodyStyle, htmlStyle, scrollListeners, headStyles, timers, nextId,
                    resizeTimer, observers, observed, lastReport, calls >>

\* a resize event on window (lines 57-63)
Resize ==
    /\ pc = "run"
    /\ env.events < MaxEvents
    /\ timers' = SetTimeout(ClearTimeout(timers, resizeTimer), nextId, "resize", ResizeDelay)
    /\ resizeTimer' = nextId
    /\ nextId' = nextId + 1
    /\ env' = [env EXCEPT !.events = @ + 1, !.resizes = @ + 1, !.quiet = 0, !.served = FALSE]
    /\ UNCHANGED << pc, readyState, dclFired, dclListeners, hidden, hasIO, doc, style,
                    bodyStyle, htmlStyle, rafId, rafQueue, ranInFrame, scrollListeners,
                    headStyles, observers, observed, lastReport, calls >>

\* the page is hidden or shown; the visibilitychange listener runs (lines 175-179)
VisibilityChange ==
    /\ pc = "run"
    /\ env.events < MaxEvents
    /\ hidden' = ~hidden
    /\ IF ~hidden'
       THEN /\ timers' = SetTimeout(timers, nextId, "visibility", VisibilityDelay)
            /\ nextId' = nextId + 1
       ELSE UNCHANGED << timers, nextId >>
    /\ env' = [env EXCEPT !.events = @ + 1]
    /\ UNCHANGED << pc, readyState, dclFired, dclListeners, hasIO, doc, style, bodyStyle,
                    htmlStyle, rafId, rafQueue, ranInFrame, scrollListeners, headStyles,
                    resizeTimer, observers, observed, lastReport, calls >>

-----------------------------------------------------------------------------
(* Time and timers *)

Min(a, b) == IF a < b THEN a ELSE b

Pending(kind) == { i \in 1 .. Len(timers) : timers[i].kind = kind }

Due == { i \in 1 .. Len(timers) : timers[i].rem = 0 }

\* the timer that runs next: the oldest of those that are due
FirstDue == CHOOSE i \in Due : \A j \in Due : i <= j

Without(tm, i) == [j \in 1 .. Len(tm) - 1 |-> IF j < i THEN tm[j] ELSE tm[j + 1]]

\* time passes until the next timer is due
Tick ==
    /\ timers # << >>
    /\ Due = {}
    /\ LET d == CHOOSE d \in { timers[i].rem : i \in 1 .. Len(timers) } :
                    \A i \in 1 .. Len(timers) : d <= timers[i].rem
       IN  /\ timers' = [i \in 1 .. Len(timers) |-> [timers[i] EXCEPT !.rem = @ - d]]
           /\ env' = [env EXCEPT !.quiet = Min(@ + d, ResizeDelay)]
    /\ UNCHANGED << pc, readyState, dclFired, dclListeners, hidden, hasIO, doc, style,
                    bodyStyle, htmlStyle, rafId, rafQueue, ranInFrame, scrollListeners,
                    headStyles, nextId, resizeTimer, observers, observed, lastReport,
                    calls >>

\* setupIntersectionObserver: the elements observed after the call
SetupObserved(io, st) ==
    IF ObserverAvailable(io)
    THEN Range(QuerySelectorAll(".project, .page, [data-v-4aa72278]", st))
    ELSE {}

\* setupIntersectionObserver: the observers created by the call
SetupObservers(io) == IF ObserverAvailable(io) THEN 1 ELSE 0

\* the timer of lines 164-167 runs optimizeTransforms and setupIntersectionObserver
FireSetup ==
    /\ Due # {}
    /\ timers[FirstDue].kind = "setup"
    /\ style' = OptimizeTransformsStyle(style)
    /\ timers' = OptimizeTransformsTimers(Without(timers, FirstDue), style, nextId)
    /\ nextId' = nextId + OptimizeTransformsIds(style)
    /\ observers' = observers + SetupObservers(hasIO)
    /\ observed' = observed \cup SetupObserved(hasIO, style')
    /\ calls' = Bump(Bump(calls, "otInit"), "setup")
    /\ UNCHANGED << pc, readyState, dclFired, dclListeners, hidden, hasIO, doc, bodyStyle,
                    htmlStyle, rafId, rafQueue, ranInFrame, scrollListeners, headStyles,
                    resizeTimer, lastReport, env >>

\* the timer of lines 49-51 resets will-change
FireReset ==
    /\ Due # {}
    /\ timers[FirstDue].kind = "reset"
    /\ style' = [style EXCEPT ![timers[FirstDue].el].willChange = "auto"]
    /\ timers' = Without(timers, FirstDue)
    /\ UNCHANGED << pc, readyState, dclFired, dclListeners, hidden, hasIO, doc, bodyStyle,
                    htmlStyle, rafId, rafQueue, ranInFrame, scrollListeners, headStyles,
                    nextId, resizeTimer, observers, observed, lastReport, calls, env >>

\* the timer of lines 59-62 runs optimizeTransforms
FireResize ==
    /\ Due # {}
    /\ timers[FirstDue].kind = "resize"
    /\ style' = OptimizeTransformsStyle(style)
    /\ timers' = OptimizeTransformsTimers(Without(timers, FirstDue), style, nextId)
    /\ nextId' = nextId + OptimizeTransformsIds(style)
    /\ calls' = Bump(calls, "otResize")
    /\ env' = [env EXCEPT !.served = TRUE]
    /\ UNCHANGED << pc, readyState, dclFired, dclListeners, hidden, hasIO, doc, bodyStyle,
                    htmlStyle, rafId, rafQueue, ranInFrame, scrollListeners, headStyles,
                    resizeTimer, observers, observed, lastReport >>

\* the timer of line 177 runs optimizeTransforms
FireVisibility ==
    /\ Due # {}
    /\ timers[FirstDue].kind = "visibility"
    /\ style' = OptimizeTransformsStyle(style)
    /\ timers' = OptimizeTransformsTimers(Without(timers, FirstDue), style, nextId)
    /\ nextId' = nextId + OptimizeTransformsIds(style)
    /\ calls' = Bump(calls, "otVisibility")
    /\ UNCHANGED << pc, readyState, dclFired, dclListeners, hidden, hasIO, doc, bodyStyle,
                    htmlStyle, rafId, rafQueue, ranInFrame, scrollListeners, headStyles,
                    resizeTimer, observers, observed, lastReport, env >>

\* a timer of lines 182-184 runs enableScrollingImmediately
FireUnlock ==
    /\ Due # {}
    /\ timers[FirstDue].kind = "unlock"
    /\ bodyStyle' = EnableScrollingBody(bodyStyle)
    /\ htmlStyle' = EnableScrolling(htmlStyle)
    /\ timers' = Without(timers, FirstDue)
    /\ calls' = Bump(calls, "enable")
    /\ UNCHANGED << pc, readyState, dclFired, dclListeners, hidden, hasIO, doc, style,
                    rafId, rafQueue, ranInFrame, scrollListeners, headStyles, nextId,
                    resizeTimer, observers, observed, lastReport, env >>

\* the observer callback (lines 69-77) with the entries the browser reports:
\* an element's first report, or a change of its isIntersecting
ObserverCallback ==
    /\ pc = "run"
    /\ env.events < MaxEvents
    /\ \E S \in SUBSET observed \ {{}} : \E entries \in [S -> BOOLEAN] :
          /\ \A e \in S : lastReport[e] = "none" \/ entries[e] # (lastReport[e] = "in")
          /\ style' = [e \in DOMAIN style |->
                          IF e \in S
                          THEN [style[e] EXCEPT !.willChange = ObserverHint(entries[e])]
                          ELSE style[e]]
          /\ lastReport' = [e \in DOMAIN lastReport |->
                               IF e \in S THEN (IF entries[e] THEN "in" ELSE "out")
                               ELSE lastReport[e]]
    /\ env' = [env EXCEPT !.events = @ + 1]
    /\ UNCHANGED << pc, readyState, dclFired, dclListeners, hidden, hasIO, doc, bodyStyle,
                    htmlStyle, rafId, rafQueue, ranInFrame, scrollListeners, headStyles,
                    timers, nextId, resizeTimer, observers, observed, calls >>

-----------------------------------------------------------------------------

Next ==
    \/ ParseEnd
    \/ DOMContentLoaded
    \/ PageLock
    \/ Script
    \/ Scroll
    \/ Frame
    \/ Resize
    \/ VisibilityChange
    \/ Tick
    \/ FireSetup
    \/ FireReset
    \/ FireResize
    \/ FireVisibility
    \/ FireUnlock
    \/ ObserverCallback

Spec == Init /\ [][Next]_vars

-----------------------------------------------------------------------------
(* Properties *)

WillChange(e) == style[e].willChange

IsProject(e) == "project" \in doc[e].class

\* the inline locks in force, as << target, property >> pairs
LockedFields ==
    {f \in {"body", "html"} \X {"overflow", "height"} :
        LET s == IF f[1] = "body" THEN bodyStyle ELSE htmlStyle
        IN  IF f[2] = "overflow" THEN s.overflow = "hidden" ELSE s.height = "100vh"}

OptimizeTransformsCalls == calls.otInit + calls.otResize + calls.otVisibility

\* C1: at most one animation-frame callback is pending at any time, rafId is
\* non-null exactly while one is pending, and scrollHandler runs at most once
\* per animation frame, however many scroll events are dispatched.
C1_Throttle ==
    /\ rafQueue <= 1
    /\ (rafId # NULL) <=> (rafQueue = 1)
    /\ ranInFrame <= 1

\* two scroll events since the last frame, one callback pending
C1_Witness == env.scrolls >= 2 /\ rafQueue = 1 /\ rafId # NULL

\* C2 as stated: when the observer reports a .project element as intersecting,
\* its willChange becomes 'transform'.
C2_Original ==
    [][\A e \in Elems :
          IsProject(e) /\ lastReport[e] # "in" /\ lastReport'[e] = "in"
              => style'[e].willChange = "transform"]_vars

\* C2 amended: when the observer reports a .project element as intersecting,
\* its willChange becomes 'transform, opacity'.
C2_Amended ==
    [][\A e \in Elems :
          IsProject(e) /\ lastReport[e] # "in" /\ lastReport'[e] = "in"
              => style'[e].willChange = "transform, opacity"]_vars

\* a lone .project element reported as intersecting right after the setup timer
C2_Witness ==
    /\ Len(doc) = 1 /\ IsProject(1) /\ hasIO /\ calls.setup = 1
    /\ lastReport[1] = "in" /\ WillChange(1) = "transform, opacity"

\* no element of the document matches any selector of the script
NoMatch ==
    \A e \in Elems :
        LET d == doc[e]  s == InitialStyle(doc[e])
        IN  ~ ( \/ StyleHasTransform(s) \/ MatchesObserved(d, s) \/ MatchesHeavy(d, s)
                \/ MatchesImg(d, s) \/ MatchesSection(d, s) )

\* C3: with no matching element the helpers change no style or attribute,
\* schedule no reset timer and observe nothing, whichever path invokes them.
C3_NoMatchNoOp ==
    NoMatch =>
        /\ \A e \in Elems : style[e] = InitialStyle(doc[e])
        /\ \A i \in 1 .. Len(timers) : timers[i].kind # "reset"
        /\ observed = {}

\* every helper has run, optimizeTransforms from all three of its callers
C3_Witness ==
    /\ NoMatch /\ Elems # {} /\ hasIO
    /\ calls.hw = 1 /\ calls.img = 1 /\ calls.paint = 1 /\ calls.setup = 1
    /\ calls.otInit = 1 /\ calls.otResize >= 1 /\ calls.otVisibility >= 1

\* C4: without IntersectionObserver no observer is created, nothing is observed
\* and no willChange is ever 'transform, opacity', while init's other
\* optimizations and optimizeTransforms run as they do with it.
C4_NoObserver ==
    ~hasIO =>
        /\ observers = 0
        /\ observed = {}
        /\ \A e \in Elems : WillChange(e) # "transform, opacity"
        /\ calls.setup > 0 =>
              /\ calls.otInit = calls.setup
              /\ scrollListeners = 1 /\ headStyles = 1
              /\ calls.hw = 1 /\ calls.img = 1 /\ calls.paint = 1 /\ calls.smooth = 1

\* setupIntersectionObserver has run without the API on an observable element
C4_Witness ==
    /\ ~hasIO /\ calls.setup = 1
    /\ \E e \in Elems : MatchesObserved(doc[e], style[e]) /\ WillChange(e) = "transform"

\* C5: at most one resize timer is pending, it is the one the latest resize
\* event set, it has run for exactly the time since that event, and the
\* quiet period it waits for has not been served yet; none is pending once
\* the quiet period was served.
C5_Debounce ==
    /\ Cardinality(Pending("resize")) <= 1
    /\ \A i \in Pending("resize") :
          /\ timers[i].id = resizeTimer
          /\ timers[i].rem + env.quiet = ResizeDelay
          /\ ~env.served
    /\ Pending("resize") = {} => env.served
    /\ calls.otResize <= env.resizes
    /\ resizeTimer = NULL <=> env.resizes = 0

\* two resize events within 250 ms of each other, served by one call
C5_Witness ==
    /\ env.resizes = 2 /\ calls.otResize = 1 /\ env.served /\ env.quiet = ResizeDelay

C7_WaitsForDom ==
    /\ readyState = "loading" => OptimizeTransformsCalls = 0 /\ calls.setup = 0
    /\ OptimizeTransformsCalls + calls.setup > 0 =>
          calls.hw > 0 /\ calls.img > 0 /\ calls.paint > 0 /\ calls.smooth > 0

\* C8: from a call of optimizeTransforms until its 3000 ms timer runs, every
\* element the call selected has willChange 'transform'.
C8_HintLastsWindow ==
    \A i \in Pending("reset") : WillChange(timers[i].el) = "transform"

\* C9: between observer callbacks an observed element's willChange is
\* 'transform, opacity' if its latest report was intersecting and 'auto' if not.
C9_ObserverInvariant ==
    \A e \in Elems :
        /\ lastReport[e] = "in" => WillChange(e) = "transform, opacity"
        /\ lastReport[e] = "out" => WillChange(e) = "auto"

====
